---- MODULE Spec2Model ----
(***************************************************************************)
(* Report-generation workflow of azure-reports-app (frontend).             *)
(*                                                                         *)
(* Modelled from the source:                                               *)
(*   - reportsService.pollReportStatus (services/reportsService.js), the   *)
(*     promise-returning helper: specifications Spec (small maxAttempts,   *)
(*     polls observed) and SpecDefault (maxAttempts = 60);                 *)
(*   - the Reports page workflow (pages/Reports.jsx) with its own          *)
(*     pollReportStatus: specification SpecPage.                           *)
(*   - reportsService.validateReportConfig applied to every configuration  *)
(*     of a bounded set: SpecValidate;                                     *)
(*   - reportsService.extractDashboardMetrics and formatAnalysisData       *)
(*     applied to every payload of a bounded set: SpecMetrics;             *)
(*   - the dashboard's loadDashboardData / loadSpecializedStats            *)
(*     (components/dashboard/EnhancedDashboard.jsx): SpecDash;             *)
(*   - fetchWithRetry with handleApiResponse (same file): SpecRetry.       *)
(* The variables of the other parts stay unchanged in each specification.  *)
(*                                                                         *)
(* Conventions: an optional JS string (undefined/null or a string) is a    *)
(* sequence of at most one string, <<>> standing for undefined/null.       *)
(* onStatusUpdate is an observer: it is taken to return normally.          *)
(***************************************************************************)
EXTENDS Integers, Sequences, FiniteSets, TLC

VARIABLES
    maxAttempts,     \* argument maxAttempts of pollReportStatus
    hasCallback,     \* onStatusUpdate is not null
    svcPc,           \* "idle" before the call, "called" after it
    attempts,        \* let attempts (closure of pollReportStatus)
    svcTimers,       \* pending setTimeout(checkStatus, ...) timers
    svcInFlight,     \* getReport requests sent and not yet answered
    promise,         \* "pending", "resolved" or "rejected"
    settleCalls,     \* calls of resolve(...) and reject(...) so far
    settledWith,     \* what the promise settled with: [value, error]
    polls,           \* getReport requests issued so far
    lastReport,      \* report of the latest successful poll (client mirror)
    lastError,       \* error thrown by getReport in the latest poll, "" if none
    logCap,          \* the observer records the first logCap successful polls
    pollLog,         \* statuses returned by the first logCap successful polls
    cbLog,           \* statuses passed to onStatusUpdate, same window
    onlyProcessing,  \* every successful poll so far returned 'processing'
    \* ---- pages/Reports.jsx ----
    mounted,         \* the Reports component is mounted
    csvFile,         \* useState csvFile: <<>> (null) or <<descriptor>>
    isUploading,     \* useState isUploading
    uploadXhrs,      \* upload requests sent and not yet answered
    isGenerating,    \* useState isGenerating
    generatedReport, \* useState generatedReport: <<>> (null) or <<report>>
    currentStep,     \* useState currentStep: 1 upload, 2 configure, 3 generate
    reportConfig,    \* useState reportConfig: [title, type]
    pageIntervals,   \* running setInterval progress timers
    pageCreateReqs,  \* POST /api/reports/ requests in flight (their bodies)
    pageLoops,       \* live poll loops: [id, attempts, timers, inflight]
    hasReset,        \* handleReset has run at least once
    \* ---- reportsService.validateReportConfig ----
    valConfig,       \* the configuration handed to validateReportConfig
    valResult,       \* <<>> before the call, then <<what it returned>>
    \* ---- reportsService.extractDashboardMetrics / formatAnalysisData ----
    rawData,         \* the analysisData argument
    rawType,         \* the reportType argument
    metricsOut,      \* <<>>, then <<outcome of extractDashboardMetrics>>
    formatOut,       \* <<>>, then <<outcome of formatAnalysisData>>
    \* ---- components/dashboard/EnhancedDashboard.jsx: loadDashboardData ----
    dashPc,          \* "idle", "base" (Promise.all pending), "stats", "done"
    loading,         \* useState loading
    baseInFlight,    \* requests of the Promise.all not yet answered
    dashboardData,   \* useState dashboardData: <<>> (null) or <<stats>>
    recentReports,   \* useState recentReports has been set from the response
    statsIdx,        \* position of the for loop in types, 0 before the loop
    statsInFlight,   \* getAnalyticsForType requests not yet answered
    stats,           \* const stats of loadSpecializedStats
    specializedStats,\* useState specializedStats
    statsOutcome,    \* how the request of each type ended: "none", "ok", "failed"
    \* ---- EnhancedDashboard.jsx: fetchWithRetry / handleApiResponse ----
    rPc,             \* "idle", "inflight", "waiting", "returned", "thrown",
                     \* "unloaded" (the document was replaced after a 401)
    retryCount,      \* argument retryCount of the running call
    rRequests,       \* fetch calls made so far
    rStatuses,       \* status of each answer so far, 0 for a network error
    rDelays,         \* the delays waited so far, in ms
    rError,          \* message of the error thrown to the caller, "" if none
    rTokens,         \* access / refresh tokens are in the storages
    rLocation,       \* "app", or "/" once window.location.href was assigned
    \* ---- the Authorization header built by the transport helpers ----
    hdrHelper,       \* which helper builds the request
    hdrStore,        \* the tokens in localStorage / sessionStorage
    hdrCaller,       \* Authorization of the caller's options.headers, if any
    hdrSent,         \* <<>>, then <<Authorization of the request sent>>
    \* ---- uploadCSVFile (reportsService) / uploadFile (services/api.js) ----
    upApi,           \* which of the two upload functions runs
    upHasCb,         \* an onProgress callback was passed
    upTotal,         \* size of the request body
    upComputable,    \* event.lengthComputable of the progress events
    upPc,            \* "idle", "sending" (xhr.send done), "ended"
    upLoaded,        \* event.loaded of the latest progress event
    upEvents,        \* progress events fired so far
    upBodyDone,      \* the final progress event of the body has fired
    upLog,           \* the values passed to onProgress, in order
    upPromise,       \* "pending", "resolved" or "rejected"
    upSettles,       \* calls of resolve(...) and reject(...) so far
    upEnd,           \* how the transfer ended: "none", "ok", "badbody",
                     \* "http", "network", "timeout"
    upCeiling,       \* 300 s have passed since xhr.send
    \* ---- the two poll loops fed with the same answers ----
    twSvc,           \* reportsService.pollReportStatus: [attempts, polls, outcome]
    twPage,          \* Reports.jsx pollReportStatus: [attempts, polls, outcome]
    \* ---- createReport ----
    crBuilder,       \* which createReport builds the request
    crInput,         \* the caller's inclusion flags, each <<>> or <<boolean>>
    crBody           \* <<>>, then <<the flags of the POST body>>

svcVars == <<maxAttempts, hasCallback, svcPc, attempts, svcTimers, svcInFlight,
             promise, settleCalls, settledWith, polls, lastReport, lastError,
             logCap, pollLog, cbLog, onlyProcessing>>

pageVars == <<mounted, csvFile, isUploading, uploadXhrs, isGenerating,
              generatedReport, currentStep, reportConfig, pageIntervals,
              pageCreateReqs, pageLoops, hasReset>>

valVars == <<valConfig, valResult>>

metVars == <<rawData, rawType, metricsOut, formatOut>>

\* the variables outside the two poll loops
dashVars == <<dashPc, loading, baseInFlight, dashboardData, recentReports,
              statsIdx, statsInFlight, stats, specializedStats, statsOutcome>>

retryVars == <<rPc, retryCount, rRequests, rStatuses, rDelays, rError, rTokens,
               rLocation>>

hdrVars == <<hdrHelper, hdrStore, hdrCaller, hdrSent>>

upVars == <<upApi, upHasCb, upTotal, upComputable, upPc, upLoaded, upEvents,
            upBodyDone, upLog, upPromise, upSettles, upEnd, upCeiling>>

twinVars == <<twSvc, twPage>>

crVars == <<crBuilder, crInput, crBody>>

\* the variables of the transport helpers, the upload and the request builders
moreVars == <<hdrVars, upVars, twinVars, crVars>>

utilVars == <<valVars, metVars, dashVars, retryVars, moreVars>>

\* the variables of the parts above
coreVars == <<svcVars, pageVars, valVars, metVars, dashVars, retryVars>>

vars == <<svcVars, pageVars, utilVars>>

----------------------------------------------------------------------------
(* Bounds of the exploration *)

\* largest maxAttempts argument explored besides the default
MaxAttemptsArg == 4
\* length of the observation window of pollLog / cbLog
MaxLog == 4
\* longest title typed into the form
MaxTitleLen == 3
\* file descriptors the backend hands out
MaxFiles == 1
\* report ids the backend hands out
MaxReports == 2
\* distinct stats payloads the backend answers with
MaxStats == 3
\* largest size of an upload body
MaxBytes == 3
\* progress events fired before the final one of an upload
MaxProgressEvents == 2
\* largest number stored in a field of an analysis payload
MaxMetric == 1

(* Program constants *)

\* API_CONFIG.RETRY.ATTEMPTS
RETRY_ATTEMPTS == 3
\* API_CONFIG.RETRY.DELAY, in ms
RETRY_DELAY == 1000

\* default of the maxAttempts parameter
DefaultMaxAttempts == 60
\* const maxAttempts of the page's pollReportStatus
PageMaxAttempts == 60
\* shortest accepted title, after trimming
MinTitleLen == 3

----------------------------------------------------------------------------
(* Data *)

\* REPORT_STATUS of utils/constants.js
REPORT_STATUS == {"draft", "pending", "processing", "analyzing", "generating",
                  "completed", "failed", "cancelled"}

\* error_message values a backend report can carry: absent, empty, a text
ErrorMessages == {<<>>, <<"">>, <<"disk full">>}

NoReport == [status |-> "none", error_message |-> <<>>]

\* reports the backend can return from GET /reports/:id/
Reports == [status : REPORT_STATUS \ {"failed"}, error_message : {<<>>}]
           \cup [status : {"failed"}, error_message : ErrorMessages]

\* outcomes of one fetch: a 2xx with a JSON report, a 2xx whose body does not
\* parse, a non-2xx with or without a JSON {message}, or a network failure
Responses ==
    [kind : {"ok"}, code : {200}, report : Reports, message : {<<>>}]
    \cup [kind : {"badjson"}, code : {200}, report : {NoReport}, message : {<<>>}]
    \cup [kind : {"http"}, code : {404, 500}, report : {NoReport},
          message : {<<>>, <<"not available">>}]
    \cup [kind : {"network"}, code : {0}, report : {NoReport}, message : {<<>>}]

NetworkErrorText == "Failed to fetch"
JsonErrorText == "Unexpected token in JSON"
PollingTimeoutText == "Polling timeout - report generation took too long"
GenerationFailedText == "Report generation failed"

\* `HTTP error! status: ${response.status}`
HttpErrorText(code) ==
    CASE code = 404 -> "HTTP error! status: 404"
      [] code = 500 -> "HTTP error! status: 500"
      [] OTHER -> "HTTP error! status"

\* JS truthiness of an optional string: undefined, null and '' are falsy
Falsy(opt) == opt = <<>> \/ opt = <<"">>

\* a || b for an optional string a and a string b
OrElse(opt, default) == IF Falsy(opt) THEN default ELSE opt[1]

Returned(report) == [ok |-> TRUE, value |-> report, error |-> ""]
Thrown(text) == [ok |-> FALSE, value |-> NoReport, error |-> text]

\* handleResponse: a non-2xx throws Error(error.message || `HTTP error! ...`),
\* a 2xx returns response.json(), which rejects when the body does not parse
handleResponse(resp) ==
    IF ~(resp.code >= 200 /\ resp.code < 300)
    THEN Thrown(OrElse(resp.message, HttpErrorText(resp.code)))
    ELSE IF resp.kind = "badjson"
         THEN Thrown(JsonErrorText)
         ELSE Returned(resp.report)

\* getReport: fetch rejects on a network failure, else handleResponse
getReport(resp) ==
    IF resp.kind = "network" THEN Thrown(NetworkErrorText) ELSE handleResponse(resp)

----------------------------------------------------------------------------
(* reportsService.pollReportStatus *)

Effects(notify, settle, value, error, again) ==
    [notify |-> notify, settle |-> settle, value |-> value, error |-> error,
     again |-> again]

\* checkStatus with a callback that is skipped on the poll that ends the wait
checkStatus_notifyOnlyWhileWaiting(res, att, max, hasCb) ==
    IF ~res.ok
    THEN Effects(FALSE, "rejected", NoReport, res.error, FALSE)
    ELSE LET report == res.value IN
         IF report.status = "completed"
         THEN Effects(FALSE, "resolved", report, "", FALSE)
         ELSE IF report.status = "failed"
         THEN Effects(FALSE, "rejected", NoReport,
                      OrElse(report.error_message, GenerationFailedText), FALSE)
         ELSE IF att >= max
         THEN Effects(FALSE, "rejected", NoReport, PollingTimeoutText, FALSE)
         ELSE Effects(hasCb, "none", NoReport, "", TRUE)

\* checkStatus that resolves on 'completed' and falls through to the timer
checkStatus_noStopOnCompleted(res, att, max, hasCb) ==
    IF ~res.ok
    THEN Effects(FALSE, "rejected", NoReport, res.error, FALSE)
    ELSE LET report == res.value IN
         IF report.status = "completed"
         THEN Effects(hasCb, "resolved", report, "", TRUE)
         ELSE IF report.status = "failed"
         THEN Effects(hasCb, "rejected", NoReport,
                      OrElse(report.error_message, GenerationFailedText), FALSE)
         ELSE IF att >= max
         THEN Effects(hasCb, "rejected", NoReport, PollingTimeoutText, FALSE)
         ELSE Effects(hasCb, "none", NoReport, "", TRUE)

\* checkStatus that drops the backend's error_message
checkStatus_defaultMessageOnly(res, att, max, hasCb) ==
    IF ~res.ok
    THEN Effects(FALSE, "rejected", NoReport, res.error, FALSE)
    ELSE LET report == res.value IN
         IF report.status = "completed"
         THEN Effects(hasCb, "resolved", report, "", FALSE)
         ELSE IF report.status = "failed"
         THEN Effects(hasCb, "rejected", NoReport, GenerationFailedText, FALSE)
         ELSE IF att >= max
         THEN Effects(hasCb, "rejected", NoReport, PollingTimeoutText, FALSE)
         ELSE Effects(hasCb, "none", NoReport, "", TRUE)

\* checkStatus whose catch block retries instead of rejecting
checkStatus_retryOnError(res, att, max, hasCb) ==
    IF ~res.ok
    THEN Effects(FALSE, "none", NoReport, "", TRUE)
    ELSE LET report == res.value IN
         IF report.status = "completed"
         THEN Effects(hasCb, "resolved", report, "", FALSE)
         ELSE IF report.status = "failed"
         THEN Effects(hasCb, "rejected", NoReport,
                      OrElse(report.error_message, GenerationFailedText), FALSE)
         ELSE IF att >= max
         THEN Effects(hasCb, "rejected", NoReport, PollingTimeoutText, FALSE)
         ELSE Effects(hasCb, "none", NoReport, "", TRUE)

\* checkStatus after `await this.getReport(reportId)` has produced res:
\* what the body of the try block, or the catch block, does.
\*   notify: onStatusUpdate(report) is called;  settle/value/error: the call of
\*   resolve or reject;  again: attempts++ and setTimeout(checkStatus, 5000)
checkStatus(res, att, max, hasCb) ==
    IF ~res.ok
    THEN Effects(FALSE, "rejected", NoReport, res.error, FALSE)
    ELSE LET report == res.value IN
         IF report.status = "completed"
         THEN Effects(hasCb, "resolved", report, "", FALSE)
         ELSE IF report.status = "failed"
         THEN Effects(hasCb, "rejected", NoReport,
                      OrElse(report.error_message, GenerationFailedText), FALSE)
         ELSE IF att >= max
         THEN Effects(hasCb, "rejected", NoReport, PollingTimeoutText, FALSE)
         ELSE Effects(hasCb, "none", NoReport, "", TRUE)

Record(log, status) == IF Len(log) < logCap THEN Append(log, status) ELSE log

\* pollReportStatus(reportId, onStatusUpdate, maxAttempts): attempts = 0, the
\* promise is created and the first check is scheduled after 3 seconds
pollReportStatus ==
    /\ svcPc = "idle"
    /\ svcPc' = "called"
    /\ attempts' = 0
    /\ svcTimers' = svcTimers + 1
    /\ UNCHANGED <<maxAttempts, hasCallback, svcInFlight, promise, settleCalls,
                   settledWith, polls, lastReport, lastError, logCap, pollLog,
                   cbLog, onlyProcessing>>
    /\ UNCHANGED <<pageVars, utilVars>>

\* a timer that re-arms itself when it fires (setInterval-style polling)
SvcTimerFire_rearm ==
    /\ svcTimers > 0
    /\ svcInFlight' = svcInFlight + 1
    /\ polls' = polls + 1
    /\ UNCHANGED <<maxAttempts, hasCallback, svcPc, attempts, svcTimers, promise,
                   settleCalls, settledWith, lastReport, lastError, logCap,
                   pollLog, cbLog, onlyProcessing>>
    /\ UNCHANGED <<pageVars, utilVars>>

\* a pending timer fires: checkStatus starts and sends GET /reports/:id/
SvcTimerFire ==
    /\ svcTimers > 0
    /\ svcTimers' = svcTimers - 1
    /\ svcInFlight' = svcInFlight + 1
    /\ polls' = polls + 1
    /\ UNCHANGED <<maxAttempts, hasCallback, svcPc, attempts, promise,
                   settleCalls, settledWith, lastReport, lastError, logCap,
                   pollLog, cbLog, onlyProcessing>>
    /\ UNCHANGED <<pageVars, utilVars>>

\* the request is answered and checkStatus runs to its end
SvcPollResponse(resp) ==
    /\ svcInFlight > 0
    /\ svcInFlight' = svcInFlight - 1
    /\ LET res == getReport(resp)
           eff == checkStatus(res, attempts, maxAttempts, hasCallback)
       IN /\ lastReport' = IF res.ok THEN res.value ELSE lastReport
          /\ lastError' = IF res.ok THEN "" ELSE res.error
          /\ pollLog' = IF res.ok THEN Record(pollLog, res.value.status) ELSE pollLog
          /\ onlyProcessing' = IF res.ok
                               THEN onlyProcessing /\ res.value.status = "processing"
                               ELSE onlyProcessing
          /\ cbLog' = IF eff.notify THEN Record(cbLog, res.value.status) ELSE cbLog
          /\ settleCalls' = IF eff.settle = "none" THEN settleCalls ELSE settleCalls + 1
          /\ promise' = IF eff.settle # "none" /\ promise = "pending"
                        THEN eff.settle ELSE promise
          /\ settledWith' = IF eff.settle # "none" /\ promise = "pending"
                            THEN [value |-> eff.value, error |-> eff.error]
                            ELSE settledWith
          /\ attempts' = IF eff.again THEN attempts + 1 ELSE attempts
          /\ svcTimers' = IF eff.again THEN svcTimers + 1 ELSE svcTimers
    /\ UNCHANGED <<maxAttempts, hasCallback, svcPc, polls, logCap>>
    /\ UNCHANGED <<pageVars, utilVars>>

----------------------------------------------------------------------------
(* Validation Gate: reportsService.validateReportConfig *)

\* characters of a title: a blank and a non-blank
Chars == {" ", "a"}

\* the strings a user can type into the title field
Titles == UNION {[1..n -> Chars] : n \in 0..MaxTitleLen}

RECURSIVE TrimLeft(_)
TrimLeft(str) == IF str # <<>> /\ Head(str) = " " THEN TrimLeft(Tail(str)) ELSE str

RECURSIVE TrimRight(_)
TrimRight(str) ==
    IF str # <<>> /\ str[Len(str)] = " "
    THEN TrimRight(SubSeq(str, 1, Len(str) - 1))
    ELSE str

\* String.prototype.trim
trim(str) == TrimRight(TrimLeft(str))

TitleError == "El titulo debe tener al menos 3 caracteres"
TypeError == "Tipo de reporte invalido"
FileError == "Debe seleccionar un archivo CSV"

\* utils/constants.js REPORT_TYPES (its values)
REPORT_TYPES == {"comprehensive", "security", "performance", "cost",
                 "reliability", "operational_excellence"}

\* the types validateReportConfig accepts
ValidTypes == {"comprehensive", "security", "performance", "cost"}

\* variant: the title is measured without trimming
validateReportConfig_noTrim(config) ==
    LET titleBad == \/ config.title = <<>>
                    \/ config.title[1] = <<>>
                    \/ Len(config.title[1]) < MinTitleLen
        typeBad == \/ config.type = <<>>
                   \/ config.type[1] = ""
                   \/ config.type[1] \notin ValidTypes
        fileBad == config.csvFileId = 0
        errors == (IF titleBad THEN <<TitleError>> ELSE <<>>)
                  \o (IF typeBad THEN <<TypeError>> ELSE <<>>)
                  \o (IF fileBad THEN <<FileError>> ELSE <<>>)
    IN [isValid |-> Len(errors) = 0, errors |-> errors]

\* variant: validation stops at the first violated rule
validateReportConfig_failFast(config) ==
    LET titleBad == \/ config.title = <<>>
                    \/ config.title[1] = <<>>
                    \/ Len(trim(config.title[1])) < MinTitleLen
        typeBad == \/ config.type = <<>>
                   \/ config.type[1] = ""
                   \/ config.type[1] \notin ValidTypes
        fileBad == config.csvFileId = 0
        errors == IF titleBad THEN <<TitleError>>
                  ELSE IF typeBad THEN <<TypeError>>
                  ELSE IF fileBad THEN <<FileError>>
                  ELSE <<>>
    IN [isValid |-> Len(errors) = 0, errors |-> errors]

\* config: [title, type, csvFileId]; title is an optional string of Chars, type
\* an optional string, csvFileId a number with 0 for a missing (falsy) id
validateReportConfig(config) ==
    LET titleBad == \/ config.title = <<>>
                    \/ config.title[1] = <<>>
                    \/ Len(trim(config.title[1])) < MinTitleLen
        typeBad == \/ config.type = <<>>
                   \/ config.type[1] = ""
                   \/ config.type[1] \notin ValidTypes
        fileBad == config.csvFileId = 0
        errors == (IF titleBad THEN <<TitleError>> ELSE <<>>)
                  \o (IF typeBad THEN <<TypeError>> ELSE <<>>)
                  \o (IF fileBad THEN <<FileError>> ELSE <<>>)
    IN [isValid |-> Len(errors) = 0, errors |-> errors]

\* the configurations a caller can hand to validateReportConfig: the title
\* missing or any string of Titles, the type missing, empty, a member of
\* REPORT_TYPES or an unknown word, the file reference missing or present
ValConfigs ==
    [title : {<<>>} \cup {<<t>> : t \in Titles},
     type : {<<>>} \cup {<<t>> : t \in REPORT_TYPES \cup {"", "bogus"}},
     csvFileId : 0..MaxFiles]

NoConfig == [title |-> <<>>, type |-> <<>>, csvFileId |-> 0]

\* one call of validateReportConfig(valConfig)
Validate ==
    /\ valResult = <<>>
    /\ valResult' = <<validateReportConfig(valConfig)>>
    /\ UNCHANGED <<valConfig, metVars, dashVars, retryVars, moreVars, svcVars,
                   pageVars>>

----------------------------------------------------------------------------
(* Metrics Normalizer: reportsService.extractDashboardMetrics and           *)
(* formatAnalysisData.  A JS value that may be absent is a sequence of at    *)
(* most one element; an analysis payload is [kind, basic_metrics, scores,    *)
(* dashboard_metrics] with kind the JS type of the value, and basic_metrics  *)
(* is [kind, f, risk_level] with f the numeric fields by name.               *)

\* the numeric fields read from basic_metrics
NumFields == {"total_security_actions", "high_impact_actions",
              "estimated_working_hours", "total_performance_actions",
              "high_impact_optimizations", "estimated_performance_improvement",
              "total_cost_actions", "estimated_monthly_savings",
              "estimated_annual_savings", "total_actions"}

\* the score fields read from the payload itself
ScoreFields == {"security_score", "performance_score", "optimization_score"}

\* a || d for an optional number a: undefined, null and 0 are falsy
NumOr(opt, d) == IF opt = <<>> \/ opt = <<0>> THEN d ELSE opt[1]

\* an object without any of the fields: {}
NoNums == [n \in NumFields |-> <<>>]
NoScores == [n \in ScoreFields |-> <<>>]
EmptyBasic == [kind |-> "object", f |-> NoNums, risk_level |-> <<>>]

\* basic_metrics missing from the payload
NoBasic == [kind |-> "undefined", f |-> NoNums, risk_level |-> <<>>]

\* the default of the risk level
RiskDefault_low == "Low"

RiskDefault == "Unknown"

\* variant: the cost score defaults to 0
ScoreDefault_costZero(reportType) ==
    CASE reportType = "security" -> 0
      [] reportType = "performance" -> 100
      [] reportType = "cost" -> 0

\* the literal after `||` of the score field in the branch of reportType
ScoreDefault(reportType) ==
    CASE reportType = "security" -> 0
      [] reportType = "performance" -> 100
      [] reportType = "cost" -> 100

\* outcome of a call: a returned value, or a thrown TypeError
MetricsReturned(value) == [threw |-> FALSE, value |-> <<value>>]
MetricsThrown == [threw |-> TRUE, value |-> <<>>]

extractDashboardMetrics(analysisData, reportType) ==
    IF analysisData.kind \in {"undefined", "null"}
    THEN \* analysisData.basic_metrics: property read of null or undefined
         MetricsThrown
    ELSE
    LET \* a property of a number or a string reads as undefined
        own == analysisData.kind = "object"
        basicValue == IF own THEN analysisData.basic_metrics ELSE NoBasic
        \* basic_metrics || {}; fields of a non-object read as undefined
        basic == IF basicValue.kind = "object" THEN basicValue ELSE EmptyBasic
        score(name) == IF own THEN analysisData.scores[name] ELSE <<>>
    IN  CASE reportType = "security" ->
               MetricsReturned(
                 [total_actions |-> NumOr(basic.f["total_security_actions"], 0),
                  critical_issues |-> NumOr(basic.f["high_impact_actions"], 0),
                  security_score |->
                      NumOr(score("security_score"), ScoreDefault(reportType)),
                  working_hours |-> NumOr(basic.f["estimated_working_hours"], 0),
                  risk_level |-> OrElse(basic.risk_level, RiskDefault)])
          [] reportType = "performance" ->
               MetricsReturned(
                 [total_actions |-> NumOr(basic.f["total_performance_actions"], 0),
                  critical_optimizations |->
                      NumOr(basic.f["high_impact_optimizations"], 0),
                  performance_score |->
                      NumOr(score("performance_score"), ScoreDefault(reportType)),
                  optimization_potential |->
                      NumOr(basic.f["estimated_performance_improvement"], 0),
                  working_hours |-> NumOr(basic.f["estimated_working_hours"], 0)])
          [] reportType = "cost" ->
               MetricsReturned(
                 [total_actions |-> NumOr(basic.f["total_cost_actions"], 0),
                  monthly_savings |-> NumOr(basic.f["estimated_monthly_savings"], 0),
                  annual_savings |-> NumOr(basic.f["estimated_annual_savings"], 0),
                  working_hours |-> NumOr(basic.f["estimated_working_hours"], 0),
                  optimization_score |->
                      NumOr(score("optimization_score"), ScoreDefault(reportType))])
          [] OTHER ->
               MetricsReturned(
                 [total_actions |-> NumOr(basic.f["total_actions"], 0),
                  working_hours |-> NumOr(basic.f["estimated_working_hours"], 0)])

\* outcome of formatAnalysisData: value is <<>> for null
formatAnalysisData(analysisData, reportType) ==
    IF analysisData.kind # "object"
    THEN \* !analysisData || typeof analysisData !== 'object'
         [threw |-> FALSE, value |-> <<>>]
    ELSE IF analysisData.dashboard_metrics # <<>>
    THEN MetricsReturned([reportType |-> reportType,
                          dashboard_metrics |-> analysisData.dashboard_metrics[1]])
    ELSE LET extracted == extractDashboardMetrics(analysisData, reportType)
         IN  IF extracted.threw
             THEN MetricsThrown
             ELSE MetricsReturned([reportType |-> reportType,
                                   dashboard_metrics |-> extracted.value[1]])

\* the report-type tags handed to the normalizer
MetricTypes == REPORT_TYPES \cup {"bogus"}

\* the fields the branch of reportType reads
BasicFieldsOf(reportType) ==
    CASE reportType = "security" ->
             {"total_security_actions", "high_impact_actions",
              "estimated_working_hours"}
      [] reportType = "performance" ->
             {"total_performance_actions", "high_impact_optimizations",
              "estimated_performance_improvement", "estimated_working_hours"}
      [] reportType = "cost" ->
             {"total_cost_actions", "estimated_monthly_savings",
              "estimated_annual_savings", "estimated_working_hours"}
      [] OTHER -> {"total_actions", "estimated_working_hours"}

ScoreFieldOf(reportType) ==
    CASE reportType = "security" -> {"security_score"}
      [] reportType = "performance" -> {"performance_score"}
      [] reportType = "cost" -> {"optimization_score"}
      [] OTHER -> {}

OptNums == {<<>>} \cup {<<n>> : n \in 0..MaxMetric}
RiskLevels == {<<>>, <<"">>, <<"High">>}

\* the objects over Names whose fields in S are absent or a number
FieldsOver(Names, S) ==
    {[n \in Names |-> IF n \in S THEN h[n] ELSE <<>>] : h \in [S -> OptNums]}

\* a dashboard_metrics object already present in a payload
GivenMetrics == [total_actions |-> 1, working_hours |-> 1]

NonObjects == {"undefined", "null", "number", "string"}

\* the values of basic_metrics: missing, null, a number, a string, or an
\* object; the fields the branch of reportType does not read are left out
BasicValues(reportType) ==
    {[kind |-> k, f |-> NoNums, risk_level |-> <<>>] : k \in NonObjects}
    \cup [kind : {"object"},
          f : FieldsOver(NumFields, BasicFieldsOf(reportType)),
          risk_level : IF reportType = "security" THEN RiskLevels ELSE {<<>>}]

\* the payloads handed to the normalizer for reportType
Payloads(reportType) ==
    {[kind |-> k, basic_metrics |-> NoBasic, scores |-> NoScores,
      dashboard_metrics |-> <<>>] : k \in NonObjects}
    \cup [kind : {"object"},
          basic_metrics : BasicValues(reportType),
          scores : FieldsOver(ScoreFields, ScoreFieldOf(reportType)),
          dashboard_metrics : {<<>>, <<GivenMetrics>>}]

\* {}
EmptyPayload == [kind |-> "object", basic_metrics |-> NoBasic,
                 scores |-> NoScores, dashboard_metrics |-> <<>>]

\* one call of extractDashboardMetrics(rawData, rawType)
Extract ==
    /\ metricsOut = <<>>
    /\ metricsOut' = <<extractDashboardMetrics(rawData, rawType)>>
    /\ UNCHANGED <<rawData, rawType, formatOut, valVars, dashVars, retryVars,
                   moreVars, svcVars, pageVars>>

\* one call of formatAnalysisData(rawData, rawType)
Format ==
    /\ formatOut = <<>>
    /\ formatOut' = <<formatAnalysisData(rawData, rawType)>>
    /\ UNCHANGED <<rawData, rawType, metricsOut, valVars, dashVars, retryVars,
                   moreVars, svcVars, pageVars>>

----------------------------------------------------------------------------
(* components/dashboard/EnhancedDashboard.jsx: loadDashboardData and        *)
(* loadSpecializedStats.  reportsService.getAnalyticsForType is called here  *)
(* and not defined in services/reportsService.js: it is taken to be a       *)
(* request that is answered with a stats object or fails.  An entry of the  *)
(* stats object is [set, value]: set is false while the key is missing,     *)
(* value is <<>> for null.                                                   *)

\* const types
types == <<"security", "performance", "cost">>

TypeSet == {types[i] : i \in DOMAIN types}

\* the stats objects a request is answered with
StatsValues == 1..MaxStats

\* how a getAnalyticsForType request ends
StatsOutcomes == {[ok |-> FALSE, value |-> <<>>]}
                 \cup {[ok |-> TRUE, value |-> <<v>>] : v \in StatsValues}

Missing == [set |-> FALSE, value |-> <<>>]

\* {}
NoStats == [t \in TypeSet |-> Missing]

\* variant: a failed request leaves the key of its type out
recordTypeStats_skipOnFailure(old, type, outcome) ==
    IF outcome.ok
    THEN [old EXCEPT ![type] = [set |-> TRUE, value |-> outcome.value]]
    ELSE old

\* the try / catch of the loop body: stats[type] = typeStats, or null
recordTypeStats(old, type, outcome) ==
    IF outcome.ok
    THEN [old EXCEPT ![type] = [set |-> TRUE, value |-> outcome.value]]
    ELSE [old EXCEPT ![type] = [set |-> TRUE, value |-> <<>>]]

\* variant: the loop sends all its requests in its first pass
requestsAt_allAtOnce(idx) == IF idx = 1 THEN TypeSet ELSE {}

\* the requests sent when the loop reaches position idx
requestsAt(idx) == IF idx \in DOMAIN types THEN {types[idx]} ELSE {}

\* useEffect on mount: setLoading(true) and the Promise.all of two requests
loadDashboardData ==
    /\ dashPc = "idle"
    /\ dashPc' = "base"
    /\ loading' = TRUE
    /\ baseInFlight' = {"getDashboardStats", "getReports"}
    /\ UNCHANGED <<dashboardData, recentReports, statsIdx, statsInFlight, stats,
                   specializedStats, statsOutcome>>
    /\ UNCHANGED <<valVars, metVars, retryVars, moreVars, svcVars, pageVars>>

\* a request of the Promise.all is answered
BaseResponse(req, ok, value) ==
    /\ req \in baseInFlight
    /\ baseInFlight' = baseInFlight \ {req}
    /\ IF dashPc # "base"
       THEN \* Promise.all has rejected already: the answer is dropped
            UNCHANGED <<dashPc, loading, dashboardData, recentReports, statsIdx,
                        statsInFlight, stats>>
       ELSE IF ~ok
       THEN \* catch, then finally setLoading(false)
            /\ dashPc' = "done"
            /\ loading' = FALSE
            /\ UNCHANGED <<dashboardData, recentReports, statsIdx,
                           statsInFlight, stats>>
       ELSE IF baseInFlight' # {}
       THEN \* the other request is still pending
            UNCHANGED <<dashPc, loading, dashboardData, recentReports, statsIdx,
                        statsInFlight, stats>>
       ELSE \* both answered: the setters run and loadSpecializedStats starts;
            \* value is what getDashboardStats was answered with
            /\ dashboardData' = <<value>>
            /\ recentReports' = TRUE
            /\ dashPc' = "stats"
            /\ stats' = NoStats
            /\ statsIdx' = 1
            /\ statsInFlight' = requestsAt(1)
            /\ UNCHANGED loading
    /\ UNCHANGED <<specializedStats, statsOutcome>>
    /\ UNCHANGED <<valVars, metVars, retryVars, moreVars, svcVars, pageVars>>

\* the awaited getAnalyticsForType(type) settles: one pass of the loop body,
\* then the next request, or setSpecializedStats and setLoading(false)
StatsResponse(type, outcome) ==
    /\ dashPc = "stats"
    /\ type \in statsInFlight
    /\ statsOutcome' = [statsOutcome EXCEPT
                           ![type] = IF outcome.ok THEN "ok" ELSE "failed"]
    /\ stats' = recordTypeStats(stats, type, outcome)
    /\ statsIdx' = statsIdx + 1
    /\ statsInFlight' = (statsInFlight \ {type}) \cup requestsAt(statsIdx + 1)
    /\ IF statsIdx = Len(types)
       THEN /\ specializedStats' = stats'
            /\ dashPc' = "done"
            /\ loading' = FALSE
       ELSE UNCHANGED <<specializedStats, dashPc, loading>>
    /\ UNCHANGED <<baseInFlight, dashboardData, recentReports>>
    /\ UNCHANGED <<valVars, metVars, retryVars, moreVars, svcVars, pageVars>>

----------------------------------------------------------------------------
(* EnhancedDashboard.jsx (config/api.js part): handleApiResponse and         *)
(* fetchWithRetry.  An answer is [status, body]: status 0 stands for a      *)
(* fetch that rejects (network error), body is "detail" (JSON with a detail *)
(* text), "empty" (JSON without detail and message) or "badjson".           *)

\* API_CONFIG.RETRY.EXPONENTIAL
RETRY_EXPONENTIAL == TRUE

\* the statuses an answer can carry
ApiStatuses == {200, 400, 401, 403, 404, 413, 422, 429, 500, 503}

ApiResponses == [status : ApiStatuses \cup {0},
                 body : {"detail", "empty", "badjson"}]

RECURSIVE Pow2(_)
\* Math.pow(2, n)
Pow2(n) == IF n = 0 THEN 1 ELSE 2 * Pow2(n - 1)

\* outcome of handleApiResponse: [ok, message, expired]; expired tells that
\* the 401 branch ran (tokens removed, window.location.href = '/')
handleApiResponse(response) ==
    IF response.status = 200
    THEN \* return response.json()
         IF response.body = "badjson"
         THEN [ok |-> FALSE, message |-> JsonErrorText, expired |-> FALSE]
         ELSE [ok |-> TRUE, message |-> "", expired |-> FALSE]
    ELSE LET text ==
               CASE response.status = 401 ->
                      "Sesion expirada. Por favor, inicia sesion nuevamente."
                 [] response.status = 403 ->
                      "No tienes permisos para realizar esta accion."
                 [] response.status = 404 -> "Recurso no encontrado."
                 [] response.status = 413 ->
                      "El archivo es demasiado grande. Maximo 50MB."
                 [] response.status = 422 ->
                      "Datos invalidos. Verifica la informacion enviada."
                 [] response.status = 429 ->
                      "Demasiadas solicitudes. Intenta nuevamente en unos minutos."
                 [] response.status = 500 ->
                      "Error interno del servidor. Intenta nuevamente."
                 [] OTHER ->
                      CASE response.body = "badjson" ->
                             "Error de conexion con el servidor"
                        [] response.body = "detail" -> "detail"
                        [] OTHER -> "Error desconocido"
         IN  [ok |-> FALSE, message |-> text,
              expired |-> response.status = 401]

\* the test of the catch block: the status of the failed answer is not looked at
mayRetry(status, count) == count < RETRY_ATTEMPTS

\* the delay before the retry that follows the call with retryCount = count
retryDelay(count) ==
    IF RETRY_EXPONENTIAL THEN RETRY_DELAY * Pow2(count) ELSE RETRY_DELAY

\* the call fetchWithRetry(url, options): the first fetch is sent
fetchWithRetry ==
    /\ rPc = "idle"
    /\ rPc' = "inflight"
    /\ rRequests' = rRequests + 1
    /\ UNCHANGED <<retryCount, rStatuses, rDelays, rError, rTokens, rLocation>>
    /\ UNCHANGED <<valVars, metVars, dashVars, moreVars, svcVars, pageVars>>

\* the fetch settles: handleApiResponse, then return, or the catch block
RetryResponse(response) ==
    /\ rPc = "inflight"
    /\ rStatuses' = Append(rStatuses, response.status)
    /\ LET handled == IF response.status = 0
                      THEN [ok |-> FALSE, message |-> NetworkErrorText,
                            expired |-> FALSE]
                      ELSE handleApiResponse(response)
       IN  /\ rTokens' = IF handled.expired THEN FALSE ELSE rTokens
           /\ rLocation' = IF handled.expired THEN "/" ELSE rLocation
           /\ IF handled.ok
              THEN /\ rPc' = "returned"
                   /\ UNCHANGED <<rDelays, rError>>
              ELSE IF mayRetry(response.status, retryCount)
              THEN /\ rPc' = "waiting"
                   /\ rDelays' = Append(rDelays, retryDelay(retryCount))
                   /\ UNCHANGED rError
              ELSE /\ rPc' = "thrown"
                   /\ rError' = handled.message
                   /\ UNCHANGED rDelays
    /\ UNCHANGED <<retryCount, rRequests>>
    /\ UNCHANGED <<valVars, metVars, dashVars, moreVars, svcVars, pageVars>>

\* the delay timer fires: fetchWithRetry(url, options, retryCount + 1)
RetryTimerFire ==
    /\ rPc = "waiting"
    /\ rPc' = "inflight"
    /\ retryCount' = retryCount + 1
    /\ rRequests' = rRequests + 1
    /\ UNCHANGED <<rStatuses, rDelays, rError, rTokens, rLocation>>
    /\ UNCHANGED <<valVars, metVars, dashVars, moreVars, svcVars, pageVars>>

\* after window.location.href = '/' the document is replaced: a pending
\* delay timer or request of the old document is dropped
Unload ==
    /\ rLocation = "/"
    /\ rPc \in {"waiting", "inflight"}
    /\ rPc' = "unloaded"
    /\ UNCHANGED <<retryCount, rRequests, rStatuses, rDelays, rError, rTokens,
                   rLocation>>
    /\ UNCHANGED <<valVars, metVars, dashVars, moreVars, svcVars, pageVars>>

----------------------------------------------------------------------------
(* pages/Reports.jsx: the upload / configure / generate workflow.           *)
(* The display-only values uploadProgress and generationProgress and the    *)
(* sidebar list `reports` (fetchReports) are left out; description and the  *)
(* inclusion flags pass through reportConfig untouched.  A state setter     *)
(* called after the component has unmounted changes nothing.                *)

FileIds == 1..MaxFiles
ReportIds == 1..MaxReports

DefaultConfig == [title |-> <<>>, type |-> "comprehensive"]

\* `${getReportTypeLabel(prev.type)} - ${baseTitle} - ${date}`: a text of
\* more than three characters with non-blank ends
AutoTitle == <<"a", " ", "a">>

\* the configuration handed to the Validation Gate for a request body
ConfigOf(body) ==
    [title |-> <<body.title>>, type |-> <<body.report_type>>, csvFileId |-> body.csv_file]

Set(flag, value, old) == IF flag THEN value ELSE old

\* handleFileUpload(file): the file input is rendered at step 1 and disabled
\* while isUploading
handleFileUpload ==
    /\ mounted
    /\ currentStep = 1
    /\ ~isUploading
    /\ isUploading' = TRUE
    /\ uploadXhrs' = uploadXhrs + 1
    /\ UNCHANGED <<mounted, csvFile, isGenerating, generatedReport, currentStep,
                   reportConfig, pageIntervals, pageCreateReqs, pageLoops, hasReset>>
    /\ UNCHANGED <<svcVars, utilVars>>

\* xhr.onload / xhr.onerror of handleFileUpload.  kind: "ok" a 200/201 with a
\* JSON descriptor, "other" a load with any other status, "badjson" a 200/201
\* whose body JSON.parse rejects (onload throws before setIsUploading(false)),
\* "network" the error event
UploadResponse(kind, fid) ==
    /\ uploadXhrs > 0
    /\ uploadXhrs' = uploadXhrs - 1
    /\ csvFile' = Set(mounted /\ kind = "ok", <<[id |-> fid]>>, csvFile)
    /\ currentStep' = Set(mounted /\ kind = "ok", 2, currentStep)
    /\ reportConfig' = Set(mounted /\ kind = "ok",
                           [reportConfig EXCEPT !.title = AutoTitle], reportConfig)
    /\ isUploading' = Set(mounted /\ kind \in {"ok", "other", "network"}, FALSE,
                          isUploading)
    /\ UNCHANGED <<mounted, isGenerating, generatedReport, pageIntervals,
                   pageCreateReqs, pageLoops, hasReset>>
    /\ UNCHANGED <<svcVars, utilVars>>

\* the configuration form is rendered at step 2 while a file is held
ConfigFormShown == mounted /\ currentStep = 2 /\ csvFile # <<>>

\* onChange of the title input
setTitle(title) ==
    /\ ConfigFormShown
    /\ reportConfig' = [reportConfig EXCEPT !.title = title]
    /\ UNCHANGED <<mounted, csvFile, isUploading, uploadXhrs, isGenerating,
                   generatedReport, currentStep, pageIntervals, pageCreateReqs,
                   pageLoops, hasReset>>
    /\ UNCHANGED <<svcVars, utilVars>>

\* handleTypeSelection(type): selectedType and reportConfig.type move together
handleTypeSelection(type) ==
    /\ ConfigFormShown
    /\ reportConfig' = [reportConfig EXCEPT !.type = type]
    /\ UNCHANGED <<mounted, csvFile, isUploading, uploadXhrs, isGenerating,
                   generatedReport, currentStep, pageIntervals, pageCreateReqs,
                   pageLoops, hasReset>>
    /\ UNCHANGED <<svcVars, utilVars>>

\* the generate button: disabled = !csvFile || isGenerating || !reportConfig.title
GenerateEnabled ==
    ConfigFormShown /\ ~isGenerating /\ reportConfig.title # <<>>

\* handleGenerateReport(config) up to its first await: the state setters, the
\* progress interval and the POST /api/reports/ request
handleGenerateReport ==
    /\ GenerateEnabled
    /\ csvFile # <<>>
    /\ isGenerating' = TRUE
    /\ currentStep' = 3
    /\ pageIntervals' = pageIntervals + 1
    /\ pageCreateReqs' = pageCreateReqs \cup
           {[title |-> reportConfig.title, report_type |-> reportConfig.type,
             csv_file |-> csvFile[1].id]}
    /\ UNCHANGED <<mounted, csvFile, isUploading, uploadXhrs, generatedReport,
                   reportConfig, pageLoops, hasReset>>
    /\ UNCHANGED <<svcVars, utilVars>>

LiveIds == {l.id : l \in pageLoops}

\* the rest of handleGenerateReport.  kind "ok": a 2xx with the new report,
\* then pollReportStatus(newReport.id, progressInterval) arms the first timer
\* (3 s); any other kind ("http", "network", "badjson") ends in the catch block
CreateResponse(req, kind, id) ==
    /\ req \in pageCreateReqs
    /\ id \notin LiveIds
    /\ pageCreateReqs' = pageCreateReqs \ {req}
    /\ IF kind = "ok"
       THEN /\ pageLoops' = pageLoops \cup
                   {[id |-> id, attempts |-> 0, timers |-> 1, inflight |-> 0]}
            /\ UNCHANGED <<pageIntervals, isGenerating>>
       ELSE /\ pageIntervals' = pageIntervals - 1
            /\ isGenerating' = Set(mounted, FALSE, isGenerating)
            /\ UNCHANGED pageLoops
    /\ UNCHANGED <<mounted, csvFile, isUploading, uploadXhrs, generatedReport,
                   currentStep, reportConfig, hasReset>>
    /\ UNCHANGED <<svcVars, utilVars>>

\* a poll timer of loop l fires: checkStatus sends GET /api/reports/:id/
PageTimerFire(l) ==
    /\ l \in pageLoops
    /\ l.timers > 0
    /\ pageLoops' = (pageLoops \ {l}) \cup
           {[l EXCEPT !.timers = @ - 1, !.inflight = @ + 1]}
    /\ UNCHANGED <<mounted, csvFile, isUploading, uploadXhrs, isGenerating,
                   generatedReport, currentStep, reportConfig, pageIntervals,
                   pageCreateReqs, hasReset>>
    /\ UNCHANGED <<svcVars, utilVars>>

\* a page loop that gives up one poll early
pageCheckStatus_oneLess(resp, att) ==
    IF resp.kind = "network" THEN "catch"
    ELSE IF ~(resp.code >= 200 /\ resp.code < 300) THEN "ignored"
    ELSE IF resp.kind = "badjson" THEN "catch"
    ELSE IF resp.report.status = "completed" THEN "completed"
    ELSE IF resp.report.status = "failed" THEN "failed"
    ELSE IF att + 1 < PageMaxAttempts THEN "again"
    ELSE "timeout"

\* the branch checkStatus of the page takes for a response
pageCheckStatus(resp, att) ==
    IF resp.kind = "network" THEN "catch"
    ELSE IF ~(resp.code >= 200 /\ resp.code < 300) THEN "ignored"
    ELSE IF resp.kind = "badjson" THEN "catch"
    ELSE IF resp.report.status = "completed" THEN "completed"
    ELSE IF resp.report.status = "failed" THEN "failed"
    ELSE IF att < PageMaxAttempts THEN "again"
    ELSE "timeout"

\* a loop that keeps its timer going after 'completed'
pageSchedulesNext_alsoWhenCompleted(branch) == branch \in {"again", "completed"}

\* attempts++ and setTimeout(checkStatus, 5000) happen in the 'again' branch only
pageSchedulesNext(branch) == branch = "again"

\* the answer to a poll of loop l arrives and checkStatus runs to its end
PagePollResponse(l, resp) ==
    /\ l \in pageLoops
    /\ l.inflight > 0
    /\ LET branch == pageCheckStatus(resp, l.attempts)
           again == pageSchedulesNext(branch)
           ends == branch \in {"completed", "failed", "timeout", "catch"}
           l2 == [l EXCEPT !.inflight = @ - 1,
                           !.attempts = IF again THEN @ + 1 ELSE @,
                           !.timers = IF again THEN @ + 1 ELSE @]
       IN /\ pageLoops' = IF l2.timers + l2.inflight = 0
                          THEN pageLoops \ {l}
                          ELSE (pageLoops \ {l}) \cup {l2}
          /\ pageIntervals' = IF ends /\ pageIntervals > 0
                              THEN pageIntervals - 1 ELSE pageIntervals
          /\ isGenerating' = Set(mounted /\ ends, FALSE, isGenerating)
          /\ generatedReport' = Set(mounted /\ branch = "completed",
                                    <<[id |-> l.id, status |-> resp.report.status]>>,
                                    generatedReport)
    /\ UNCHANGED <<mounted, csvFile, isUploading, uploadXhrs, currentStep,
                   reportConfig, pageCreateReqs, hasReset>>
    /\ UNCHANGED <<svcVars, utilVars>>

\* the "Generar otro reporte" button is rendered at step 3 when no generation
\* runs and a generated report is held
ResetEnabled ==
    mounted /\ currentStep = 3 /\ ~isGenerating /\ generatedReport # <<>>

\* variant: the reset leaves the step where it is
handleReset_keepsStep ==
    /\ ResetEnabled
    /\ csvFile' = <<>>
    /\ generatedReport' = <<>>
    /\ reportConfig' = DefaultConfig
    /\ hasReset' = TRUE
    /\ UNCHANGED <<mounted, isUploading, uploadXhrs, isGenerating, pageIntervals,
                   pageCreateReqs, pageLoops, currentStep>>
    /\ UNCHANGED <<svcVars, utilVars>>

handleReset ==
    /\ ResetEnabled
    /\ csvFile' = <<>>
    /\ generatedReport' = <<>>
    /\ currentStep' = 1
    /\ reportConfig' = DefaultConfig
    /\ hasReset' = TRUE
    /\ UNCHANGED <<mounted, isUploading, uploadXhrs, isGenerating, pageIntervals,
                   pageCreateReqs, pageLoops>>
    /\ UNCHANGED <<svcVars, utilVars>>

\* the user leaves the page: the component unmounts.  Neither the effect of
\* the component nor anything else clears the timers or the interval
Unmount ==
    /\ mounted
    /\ mounted' = FALSE
    /\ UNCHANGED <<csvFile, isUploading, uploadXhrs, isGenerating, generatedReport,
                   currentStep, reportConfig, pageIntervals, pageCreateReqs,
                   pageLoops, hasReset>>
    /\ UNCHANGED <<svcVars, utilVars>>

----------------------------------------------------------------------------
(* The Authorization header of a request, as built by fetchWithAuth of      *)
(* services/api.js, fetchWithAuth of config/api.js and getHeaders of        *)
(* reportsService.  A header value is [scheme, cred]; the storages are      *)
(* [access_local, access_session, token_local], each <<>> or <<token>>.     *)

Tokens == {"tokA", "tokB"}

Stores == [access_local : {<<>>} \cup {<<t>> : t \in Tokens},
           access_session : {<<>>} \cup {<<t>> : t \in Tokens},
           token_local : {<<>>} \cup {<<t>> : t \in Tokens}]

\* `Bearer ${token}`
Bearer(token) == [scheme |-> "Bearer", cred |-> token]

\* the Authorization a caller may put into options.headers
CallerAuths == {<<>>, <<[scheme |-> "Basic", cred |-> "user"]>>,
                <<Bearer("other")>>}

\* localStorage.getItem('access_token') || sessionStorage.getItem('access_token')
getAuthToken(store) ==
    IF store.access_local # <<>> THEN store.access_local ELSE store.access_session

\* services/api.js: {...defaultHeaders, ...options.headers}
fetchWithAuth_api(store, caller) ==
    LET token == getAuthToken(store)
        defaultAuth == IF token # <<>> THEN <<Bearer(token[1])>> ELSE <<>>
    IN  IF caller # <<>> THEN caller ELSE defaultAuth

\* config/api.js: {...DEFAULT_HEADERS, ...options.headers, ...(token && {...})}
fetchWithAuth_config(store, caller) ==
    LET token == getAuthToken(store)
    IN  IF token # <<>> THEN <<Bearer(token[1])>> ELSE caller

\* reportsService.getHeaders: the token of localStorage 'token', no options
getHeaders(store) ==
    IF store.token_local # <<>> THEN <<Bearer(store.token_local[1])>> ELSE <<>>

Helpers == {"api.fetchWithAuth", "config.fetchWithAuth", "getHeaders"}

\* the helper builds the headers and the request is sent
SendRequest ==
    /\ hdrSent = <<>>
    /\ hdrSent' = << CASE hdrHelper = "api.fetchWithAuth" ->
                            fetchWithAuth_api(hdrStore, hdrCaller)
                       [] hdrHelper = "config.fetchWithAuth" ->
                            fetchWithAuth_config(hdrStore, hdrCaller)
                       [] OTHER -> getHeaders(hdrStore) >>
    /\ UNCHANGED <<hdrHelper, hdrStore, hdrCaller>>
    /\ UNCHANGED <<coreVars, upVars, twinVars, crVars>>

\* no request is built
HdrIdle ==
    /\ hdrHelper = "getHeaders"
    /\ hdrStore = [access_local |-> <<>>, access_session |-> <<>>,
                   token_local |-> <<>>]
    /\ hdrCaller = <<>>
    /\ hdrSent = <<>>

----------------------------------------------------------------------------
(* Upload with progress: reportsService.uploadCSVFile and apiService        *)
(* .uploadFile of services/api.js.  The transport is XMLHttpRequest:        *)
(* progress events carry a loaded count that never decreases, the last one  *)
(* of a body has loaded = total, a 2xx answer comes after the body, and     *)
(* exactly one of load, error and timeout ends the transfer.  Only          *)
(* uploadCSVFile sets xhr.timeout (300000 ms); upCeiling records that 300 s *)
(* have passed.                                                             *)

UploadApis == {"reportsService", "apiService"}

\* Math.round((loaded / total) * 100)
progressValue(loaded, total) == (200 * loaded + total) \div (2 * total)

\* the call: new Promise, listeners, xhr.open, xhr.send
uploadStart ==
    /\ upPc = "idle"
    /\ upPc' = "sending"
    /\ UNCHANGED <<upApi, upHasCb, upTotal, upComputable, upLoaded, upEvents,
                   upBodyDone, upLog, upPromise, upSettles, upEnd, upCeiling>>
    /\ UNCHANGED <<coreVars, hdrVars, twinVars, crVars>>

\* a progress event of xhr.upload and its listener
UploadProgress(loaded) ==
    /\ upPc = "sending"
    /\ ~upBodyDone
    /\ loaded >= upLoaded
    /\ loaded = upTotal \/ upEvents < MaxProgressEvents
    /\ upLoaded' = loaded
    /\ upEvents' = upEvents + 1
    /\ upBodyDone' = (loaded = upTotal)
    /\ upLog' = IF upHasCb /\ upComputable
                THEN Append(upLog, progressValue(loaded, upTotal))
                ELSE upLog
    /\ UNCHANGED <<upApi, upHasCb, upTotal, upComputable, upPc, upPromise,
                   upSettles, upEnd, upCeiling>>
    /\ UNCHANGED <<coreVars, hdrVars, twinVars, crVars>>

\* the load event: resolve for a 2xx with a body that parses, else reject
UploadLoad(is2xx, parses) ==
    /\ upPc = "sending"
    /\ is2xx => upBodyDone
    /\ upPc' = "ended"
    /\ upEnd' = IF ~is2xx THEN "http" ELSE IF parses THEN "ok" ELSE "badbody"
    /\ upPromise' = IF is2xx /\ parses THEN "resolved" ELSE "rejected"
    /\ upSettles' = upSettles + 1
    /\ UNCHANGED <<upApi, upHasCb, upTotal, upComputable, upLoaded, upEvents,
                   upBodyDone, upLog, upCeiling>>
    /\ UNCHANGED <<coreVars, hdrVars, twinVars, crVars>>

\* the error event: reject
UploadError ==
    /\ upPc = "sending"
    /\ upPc' = "ended"
    /\ upEnd' = "network"
    /\ upPromise' = "rejected"
    /\ upSettles' = upSettles + 1
    /\ UNCHANGED <<upApi, upHasCb, upTotal, upComputable, upLoaded, upEvents,
                   upBodyDone, upLog, upCeiling>>
    /\ UNCHANGED <<coreVars, hdrVars, twinVars, crVars>>

\* 300 s pass while the transfer runs: with xhr.timeout = 300000 the timeout
\* event fires and its listener rejects; without it nothing happens
UploadCeiling ==
    /\ upPc = "sending"
    /\ ~upCeiling
    /\ upCeiling' = TRUE
    /\ IF upApi = "reportsService"
       THEN /\ upPc' = "ended"
            /\ upEnd' = "timeout"
            /\ upPromise' = "rejected"
            /\ upSettles' = upSettles + 1
       ELSE UNCHANGED <<upPc, upEnd, upPromise, upSettles>>
    /\ UNCHANGED <<upApi, upHasCb, upTotal, upComputable, upLoaded, upEvents,
                   upBodyDone, upLog>>
    /\ UNCHANGED <<coreVars, hdrVars, twinVars, crVars>>

\* no upload is started
UpIdle ==
    /\ upApi = "reportsService"
    /\ upHasCb = FALSE
    /\ upTotal = 1
    /\ upComputable = TRUE
    /\ upPc = "idle"
    /\ upLoaded = 0
    /\ upEvents = 0
    /\ upBodyDone = FALSE
    /\ upLog = <<>>
    /\ upPromise = "pending"
    /\ upSettles = 0
    /\ upEnd = "none"
    /\ upCeiling = FALSE

\* a poll loop that has not been started
LoopIdle == [attempts |-> 0, polls |-> 0, outcome |-> "idle"]

TwinIdle ==
    /\ twSvc = LoopIdle
    /\ twPage = LoopIdle

\* what a poll loop has become after checkStatus of reportsService ran on res
svcOutcome(res, eff) ==
    IF eff.again THEN "polling"
    ELSE IF eff.settle = "resolved" THEN "completed"
    ELSE IF ~res.ok THEN "error"
    ELSE IF res.value.status = "failed" THEN "failed"
    ELSE "timeout"

\* what a poll loop has become after checkStatus of the page took a branch
pageOutcome(branch) ==
    CASE branch = "again" -> "polling"
      [] branch = "catch" -> "error"
      [] OTHER -> branch

\* the poll responses with a 2xx status
Responses2xx == {resp \in Responses : resp.code >= 200 /\ resp.code < 300}


\* one poll of reportsService.pollReportStatus(id, null, 60) answered by resp
svcLoopStep(loop, resp) ==
    LET res == getReport(resp)
        eff == checkStatus(res, loop.attempts, DefaultMaxAttempts, FALSE)
    IN  [attempts |-> IF eff.again THEN loop.attempts + 1 ELSE loop.attempts,
         polls |-> loop.polls + 1,
         outcome |-> svcOutcome(res, eff)]

\* one poll of the page's pollReportStatus answered by resp
pageLoopStep(loop, resp) ==
    LET branch == pageCheckStatus(resp, loop.attempts)
    IN  [attempts |-> IF pageSchedulesNext(branch)
                      THEN loop.attempts + 1 ELSE loop.attempts,
         polls |-> loop.polls + 1,
         outcome |-> pageOutcome(branch)]

\* both loops are started for the same report: attempts = 0, first check
\* scheduled after 3 seconds
TwinStart ==
    /\ twSvc.outcome = "idle"
    /\ twPage.outcome = "idle"
    /\ twSvc' = [twSvc EXCEPT !.outcome = "polling"]
    /\ twPage' = [twPage EXCEPT !.outcome = "polling"]
    /\ UNCHANGED <<coreVars, hdrVars, upVars, crVars>>

\* the server answers the next poll with resp: each loop that is still
\* polling issues the poll and runs its checkStatus on the answer
TwinPoll(resp) ==
    /\ twSvc.outcome = "polling" \/ twPage.outcome = "polling"
    /\ twSvc' = IF twSvc.outcome = "polling" THEN svcLoopStep(twSvc, resp)
                ELSE twSvc
    /\ twPage' = IF twPage.outcome = "polling" THEN pageLoopStep(twPage, resp)
                 ELSE twPage
    /\ UNCHANGED <<coreVars, hdrVars, upVars, crVars>>

\* reportData without inclusion flags and without configuration
NoFlags == [includeGraphics |-> <<>>, includeDetailedTables |-> <<>>,
            includeRecommendations |-> <<>>, configuration |-> <<>>]

\* createReport is not called
CrIdle ==
    /\ crBuilder = "reportsService"
    /\ crInput = NoFlags
    /\ crBody = <<>>

\* an optional boolean: undefined, true or false
OptBools == {<<>>, <<TRUE>>, <<FALSE>>}

\* the configuration of a POST /reports/ body
Configuration(graphics, tables, recommendations) ==
    [include_graphics |-> graphics, include_detailed_tables |-> tables,
     include_recommendations |-> recommendations]

\* ready-made configuration objects a caller can pass as reportData.configuration
GivenConfigurations ==
    {Configuration(<<b>>, <<b>>, <<b>>) : b \in BOOLEAN}

\* the reportData a caller can pass
ReportDatas == [includeGraphics : OptBools, includeDetailedTables : OptBools,
                includeRecommendations : OptBools,
                configuration : {<<>>} \cup {<<c>> : c \in GivenConfigurations}]

\* the three places that build the body of POST /reports/
CreateBuilders == {"apiService", "reportsService", "Reports.jsx"}

\* flag || true: undefined and false are falsy, so the result is true
OrTrue(flag) == IF flag = <<>> \/ flag = <<FALSE>> THEN <<TRUE>> ELSE flag

\* apiService.createReport: reportData.configuration || { flag || true, ... }
createReport_api(reportData) ==
    IF reportData.configuration # <<>>
    THEN reportData.configuration[1]
    ELSE Configuration(OrTrue(reportData.includeGraphics),
                       OrTrue(reportData.includeDetailedTables),
                       OrTrue(reportData.includeRecommendations))

\* reportsService.createReport: the three flags as they are
createReport(reportData) ==
    Configuration(reportData.includeGraphics,
                  reportData.includeDetailedTables,
                  reportData.includeRecommendations)

\* handleGenerateReport(config): the three flags of config as they are
generateBody(config) ==
    Configuration(config.includeGraphics,
                  config.includeDetailedTables,
                  config.includeRecommendations)

\* the builder is called with crInput and the body is serialised
BuildBody ==
    /\ crBody = <<>>
    /\ crBody' = << CASE crBuilder = "apiService" -> createReport_api(crInput)
                      [] crBuilder = "reportsService" -> createReport(crInput)
                      [] OTHER -> generateBody(crInput) >>
    /\ UNCHANGED <<crBuilder, crInput>>
    /\ UNCHANGED <<coreVars, hdrVars, upVars, twinVars>>

----------------------------------------------------------------------------
(* Initial states and specifications *)

SvcInitCommon ==
    /\ svcPc = "idle"
    /\ attempts = 0
    /\ svcTimers = 0
    /\ svcInFlight = 0
    /\ promise = "pending"
    /\ settleCalls = 0
    /\ settledWith = [value |-> NoReport, error |-> ""]
    /\ polls = 0
    /\ lastReport = NoReport
    /\ lastError = ""
    /\ pollLog = <<>>
    /\ cbLog = <<>>
    /\ onlyProcessing = TRUE

\* the Reports component after its first render
PageInit ==
    /\ mounted = TRUE
    /\ csvFile = <<>>
    /\ isUploading = FALSE
    /\ uploadXhrs = 0
    /\ isGenerating = FALSE
    /\ generatedReport = <<>>
    /\ currentStep = 1
    /\ reportConfig = DefaultConfig
    /\ pageIntervals = 0
    /\ pageCreateReqs = {}
    /\ pageLoops = {}
    /\ hasReset = FALSE

\* validateReportConfig is not called
ValIdle ==
    /\ valConfig = NoConfig
    /\ valResult = <<>>

\* the normalizer is not called
MetIdle ==
    /\ rawData = EmptyPayload
    /\ rawType = "comprehensive"
    /\ metricsOut = <<>>
    /\ formatOut = <<>>

\* the dashboard before its mount effect
DashInit ==
    /\ dashPc = "idle"
    /\ loading = TRUE
    /\ baseInFlight = {}
    /\ dashboardData = <<>>
    /\ recentReports = FALSE
    /\ statsIdx = 0
    /\ statsInFlight = {}
    /\ stats = NoStats
    /\ specializedStats = NoStats
    /\ statsOutcome = [t \in TypeSet |-> "none"]

\* before a call of fetchWithRetry, with the tokens of a signed-in user
RetryInit ==
    /\ rPc = "idle"
    /\ retryCount = 0
    /\ rRequests = 0
    /\ rStatuses = <<>>
    /\ rDelays = <<>>
    /\ rError = ""
    /\ rTokens = TRUE
    /\ rLocation = "app"

MoreIdle == HdrIdle /\ UpIdle /\ TwinIdle /\ CrIdle

UtilIdle == ValIdle /\ MetIdle /\ DashInit /\ RetryInit /\ MoreIdle

\* reportsService.pollReportStatus is not called
SvcIdle ==
    /\ maxAttempts = DefaultMaxAttempts
    /\ hasCallback = FALSE
    /\ logCap = 0
    /\ SvcInitCommon

\* a call with a small maxAttempts, observed over the first MaxLog polls
Init ==
    /\ maxAttempts \in 0..MaxAttemptsArg
    /\ hasCallback \in BOOLEAN
    /\ logCap = MaxLog
    /\ SvcInitCommon
    /\ PageInit
    /\ UtilIdle

\* a call with the default maxAttempts = 60
InitDefault ==
    /\ maxAttempts = DefaultMaxAttempts
    /\ hasCallback \in BOOLEAN
    /\ logCap = 0
    /\ SvcInitCommon
    /\ PageInit
    /\ UtilIdle

\* the Reports page; reportsService.pollReportStatus is not called
InitPage ==
    /\ maxAttempts = DefaultMaxAttempts
    /\ hasCallback = FALSE
    /\ logCap = 0
    /\ SvcInitCommon
    /\ PageInit
    /\ UtilIdle

\* validateReportConfig applied to any configuration of ValConfigs
InitValidate ==
    /\ valConfig \in ValConfigs
    /\ valResult = <<>>
    /\ MetIdle
    /\ DashInit
    /\ RetryInit
    /\ SvcIdle
    /\ PageInit
    /\ MoreIdle

\* the normalizer applied to any payload and report type
InitMetrics ==
    /\ rawType \in MetricTypes
    /\ rawData \in Payloads(rawType)
    /\ metricsOut = <<>>
    /\ formatOut = <<>>
    /\ ValIdle
    /\ DashInit
    /\ RetryInit
    /\ SvcIdle
    /\ PageInit
    /\ MoreIdle

\* the dashboard component
InitDash ==
    /\ DashInit
    /\ ValIdle
    /\ MetIdle
    /\ RetryInit
    /\ SvcIdle
    /\ PageInit
    /\ MoreIdle

Next ==
    \/ pollReportStatus
    \/ SvcTimerFire
    \/ \E resp \in Responses : SvcPollResponse(resp)

NextPage ==
    \/ handleFileUpload
    \/ \E kind \in {"ok", "other", "badjson", "network"}, fid \in FileIds :
          UploadResponse(kind, fid)
    \/ \E title \in Titles : setTitle(title)
    \/ \E type \in ValidTypes : handleTypeSelection(type)
    \/ handleGenerateReport
    \/ \E req \in pageCreateReqs, kind \in {"ok", "http", "network", "badjson"},
          id \in ReportIds : CreateResponse(req, kind, id)
    \/ \E l \in pageLoops : PageTimerFire(l)
    \/ \E l \in pageLoops, resp \in Responses : PagePollResponse(l, resp)
    \/ handleReset
    \/ Unmount

Spec == Init /\ [][Next]_vars

SpecDefault == InitDefault /\ [][Next]_vars

SpecPage == InitPage /\ [][NextPage]_vars

\* the browser runs every armed timer and every request is answered, one way
\* or another; the user's own actions are under no obligation
PageFairness ==
    /\ WF_vars(\E l \in pageLoops : PageTimerFire(l))
    /\ WF_vars(\E l \in pageLoops, resp \in Responses : PagePollResponse(l, resp))
    /\ WF_vars(\E req \in pageCreateReqs,
                  kind \in {"ok", "http", "network", "badjson"},
                  id \in ReportIds : CreateResponse(req, kind, id))

SpecPageLive == InitPage /\ [][NextPage]_vars /\ PageFairness

NextValidate == Validate

SpecValidate == InitValidate /\ [][NextValidate]_vars

NextMetrics ==
    \/ Extract
    \/ Format

SpecMetrics == InitMetrics /\ [][NextMetrics]_vars

NextDash ==
    \/ loadDashboardData
    \/ \E req \in baseInFlight, ok \in BOOLEAN, value \in StatsValues :
          BaseResponse(req, ok, value)
    \/ \E type \in statsInFlight, outcome \in StatsOutcomes :
          StatsResponse(type, outcome)

SpecDash == InitDash /\ [][NextDash]_vars

\* one call of fetchWithRetry
InitRetry ==
    /\ RetryInit
    /\ ValIdle
    /\ MetIdle
    /\ DashInit
    /\ SvcIdle
    /\ PageInit
    /\ MoreIdle

NextRetry ==
    \/ fetchWithRetry
    \/ \E response \in ApiResponses : RetryResponse(response)
    \/ RetryTimerFire
    \/ Unload

SpecRetry == InitRetry /\ [][NextRetry]_vars

\* the parts above are not running
CoreIdle ==
    /\ ValIdle
    /\ MetIdle
    /\ DashInit
    /\ RetryInit
    /\ SvcIdle
    /\ PageInit

\* one request built by any helper, for any stored tokens and caller header;
\* getHeaders takes no options
InitHeaders ==
    /\ hdrHelper \in Helpers
    /\ hdrStore \in Stores
    /\ hdrCaller \in IF hdrHelper = "getHeaders" THEN {<<>>} ELSE CallerAuths
    /\ hdrSent = <<>>
    /\ UpIdle
    /\ TwinIdle
    /\ CrIdle
    /\ CoreIdle

NextHeaders == SendRequest

SpecHeaders == InitHeaders /\ [][NextHeaders]_vars

\* one upload by either function, with or without onProgress
InitUpload ==
    /\ upApi \in UploadApis
    /\ upHasCb \in BOOLEAN
    /\ upTotal \in 1..MaxBytes
    /\ upComputable \in BOOLEAN
    /\ upPc = "idle"
    /\ upLoaded = 0
    /\ upEvents = 0
    /\ upBodyDone = FALSE
    /\ upLog = <<>>
    /\ upPromise = "pending"
    /\ upSettles = 0
    /\ upEnd = "none"
    /\ upCeiling = FALSE
    /\ HdrIdle
    /\ TwinIdle
    /\ CrIdle
    /\ CoreIdle

NextUpload ==
    \/ uploadStart
    \/ \E loaded \in 0..upTotal : UploadProgress(loaded)
    \/ \E is2xx \in BOOLEAN, parses \in BOOLEAN : UploadLoad(is2xx, parses)
    \/ UploadError
    \/ UploadCeiling

SpecUpload == InitUpload /\ [][NextUpload]_vars

\* the two poll loops fed the same 2xx answers
InitTwin == CoreIdle /\ HdrIdle /\ UpIdle /\ TwinIdle /\ CrIdle

NextTwin ==
    \/ TwinStart
    \/ \E resp \in Responses2xx : TwinPoll(resp)

SpecTwin == InitTwin /\ [][NextTwin]_vars

\* one call of one of the builders with any reportData
InitCreate ==
    /\ CoreIdle /\ HdrIdle /\ UpIdle /\ TwinIdle
    /\ crBuilder \in CreateBuilders
    /\ crInput \in ReportDatas
    /\ crBody = <<>>

NextCreate == BuildBody

SpecCreate == InitCreate /\ [][NextCreate]_vars

----------------------------------------------------------------------------
(* Claims about reportsService.pollReportStatus *)

SvcQuiet == svcTimers = 0 /\ svcInFlight = 0

\* C1 (as stated): with maxAttempts = 60 and every poll returning
\* 'processing', the promise is rejected with the polling-timeout error after
\* exactly 60 polls.
C1_TimeoutAfterExactly60Polls ==
    ( /\ maxAttempts = DefaultMaxAttempts
      /\ onlyProcessing
      /\ promise = "rejected"
      /\ settledWith.error = PollingTimeoutText )
    => polls = DefaultMaxAttempts

\* C2: the promise settles exactly once (one call of resolve or reject, and a
\* loop that has gone quiet has settled), and once it has settled no poll
\* timer is pending and no getReport is in flight, so no further poll is issued.
C2_SettlesOnceThenQuiet ==
    /\ settleCalls <= 1
    /\ (promise # "pending") <=> (settleCalls = 1)
    /\ (promise # "pending") => SvcQuiet
    /\ (svcPc = "called" /\ SvcQuiet) => promise # "pending"

C2_Witness == promise = "resolved" /\ polls >= 2 /\ settleCalls = 1

\* C3: onStatusUpdate is invoked exactly once per successful poll, in poll
\* order, status change or not, the last poll included; for the polls pending,
\* processing, analyzing, completed it is invoked with these four in order and
\* the promise resolves with the report whose status is 'completed'.
C3_CallbackOncePerSuccessfulPoll ==
    /\ hasCallback => cbLog = pollLog
    /\ ~hasCallback => cbLog = <<>>
    /\ pollLog = <<"pending", "processing", "analyzing", "completed">>
       => /\ promise = "resolved"
          /\ settledWith.value.status = "completed"
          /\ hasCallback => cbLog = <<"pending", "processing", "analyzing", "completed">>

C3_Witness ==
    /\ hasCallback
    /\ pollLog = <<"pending", "processing", "analyzing", "completed">>
    /\ Len(cbLog) = 4
    /\ promise = "resolved"

\* C4 (as stated): a poll returning 'failed' with an error_message m rejects
\* the promise with an error carrying exactly m, whatever m is, and ends the
\* polling.
C4_FailedCarriesExactMessage ==
    (lastReport.status = "failed" /\ lastReport.error_message # <<>>)
    => /\ promise = "rejected"
       /\ settledWith.error = lastReport.error_message[1]
       /\ SvcQuiet

\* C4 (amended): a poll returning 'failed' rejects the promise and ends the
\* polling; the error carries exactly error_message when that is a non-empty
\* string, and the text 'Report generation failed' when it is empty or absent.
C4_FailedCarriesMessageOrDefault ==
    lastReport.status = "failed"
    => /\ promise = "rejected"
       /\ SvcQuiet
       /\ lastReport.error_message \notin {<<>>, <<"">>}
          => settledWith.error = lastReport.error_message[1]
       /\ lastReport.error_message \in {<<>>, <<"">>}
          => settledWith.error = "Report generation failed"

C4_Witness ==
    /\ lastReport = [status |-> "failed", error_message |-> <<"disk full">>]
    /\ promise = "rejected"
    /\ settledWith.error = "disk full"
    /\ polls >= 2

\* C5: a getReport that rejects (network failure, non-2xx, unparseable body)
\* in any poll rejects the promise with that very error and ends the polling.
C5_TransportErrorIsFatal ==
    lastError # ""
    => /\ promise = "rejected"
       /\ settledWith.error = lastError
       /\ SvcQuiet

C5_Witness ==
    /\ lastError = "HTTP error! status: 500"
    /\ promise = "rejected"
    /\ polls >= 3

\* the statuses the claim calls terminal
TerminalStatus == {"completed", "failed", "cancelled"}

\* C6 (as stated): completed, failed and cancelled are terminal for the
\* client: once a poll has returned one of them the loop polls no more.
C6_TerminalStatusStopsPolling ==
    lastReport.status \in TerminalStatus => SvcQuiet

\* C7: polls are strictly sequential: at most one getReport is in flight, and a
\* timer for the next poll exists only when no poll is in flight.
C7_PollsSequential ==
    /\ svcInFlight <= 1
    /\ svcTimers + svcInFlight <= 1

C7_Witness == svcInFlight = 1 /\ polls >= 2 /\ svcTimers = 0

----------------------------------------------------------------------------
(* Claims about the Reports page *)

\* polls of the page that have been sent and not yet answered
PollsInFlight == Cardinality({l \in pageLoops : l.inflight > 0})

\* C8 (as stated): once the wait has been cancelled (the page left, the
\* workflow reset) no further poll is issued, even when a poll timer was
\* pending at that moment: the number of polls in flight never rises again.
C8_CancelStopsPolling ==
    [][~mounted => PollsInFlight' <= PollsInFlight]_vars

\* C9: whatever uploads, generations, poll responses and resets have happened,
\* at most one poll loop is live, and it has at most one pending timer or poll
\* in flight.
C9_AtMostOnePollLoop ==
    /\ Cardinality(pageLoops) <= 1
    /\ \A l \in pageLoops : l.timers + l.inflight <= 1

C9_Witness ==
    /\ hasReset
    /\ \E l \in pageLoops : l.attempts >= 1 /\ l.inflight = 1

\* C10 (as stated): no POST /reports/ request is issued for a configuration
\* the Validation Gate rejects.
C10_NoPostForInvalidConfig ==
    \A req \in pageCreateReqs : validateReportConfig(ConfigOf(req)).isValid

----------------------------------------------------------------------------
(* Claims about reportsService.validateReportConfig *)

\* validateReportConfig has returned
Validated == valResult # <<>>

\* the title of valConfig is missing or shorter than 3 characters once trimmed
TitleTooShort ==
    \/ valConfig.title = <<>>
    \/ Len(trim(valConfig.title[1])) < MinTitleLen

\* C11: a configuration whose title is missing or shorter than 3 characters
\* after trimming is rejected: isValid is false and errors contains the
\* title-length error, whatever the type and the file reference are.
C11_ShortTitleRejected ==
    (Validated /\ TitleTooShort) =>
        /\ valResult[1].isValid = FALSE
        /\ \E i \in DOMAIN valResult[1].errors : valResult[1].errors[i] = TitleError

\* a title of three characters that trims to fewer, with valid type and file
C11_Witness ==
    /\ Validated
    /\ valConfig.title = << <<" ", "a", "a">> >>
    /\ valConfig.type = <<"security">>
    /\ valConfig.csvFileId # 0
    /\ valResult[1].errors = <<TitleError>>

\* the messages of valResult.errors
ValErrors == {valResult[1].errors[i] : i \in DOMAIN valResult[1].errors}

\* the type of valConfig is missing or no member of the report-type enum
TypeOutsideEnum ==
    \/ valConfig.type = <<>>
    \/ valConfig.type[1] \notin REPORT_TYPES

\* C12: validateReportConfig is not fail-fast: every violated rule has its
\* entry in errors and no rule has two; in particular a configuration without
\* a file reference gets the file-reference error even when the title and the
\* type rules are violated as well.
C12_EveryViolationReported ==
    Validated =>
        /\ TitleTooShort => TitleError \in ValErrors
        /\ TypeOutsideEnum => TypeError \in ValErrors
        /\ valConfig.csvFileId = 0 => FileError \in ValErrors
        /\ Cardinality(ValErrors) = Len(valResult[1].errors)

\* all three rules violated at once, three errors returned
C12_Witness ==
    /\ Validated
    /\ TitleTooShort
    /\ TypeOutsideEnum
    /\ valConfig.csvFileId = 0
    /\ valResult[1].errors = <<TitleError, TypeError, FileError>>

\* C13: validateReportConfig returns a structured result, and isValid is true
\* exactly when the title has trimmed length >= 3, the type is a member of
\* REPORT_TYPES and the file reference is non-empty; isValid is true if and
\* only if errors is empty.
C13_ValidIffRulesHold ==
    Validated =>
        /\ valResult[1].isValid \in BOOLEAN
        /\ valResult[1].isValid <=>
               /\ ~TitleTooShort
               /\ ~TypeOutsideEnum
               /\ valConfig.csvFileId # 0
        /\ valResult[1].isValid <=> (valResult[1].errors = <<>>)

----------------------------------------------------------------------------
(* Claims about the Metrics Normalizer *)

\* extractDashboardMetrics has run
Extracted == metricsOut # <<>>

\* C14: extractDashboardMetrics(raw, 'security') with an entirely empty raw
\* payload returns security_score 0, critical_issues 0, total_actions 0,
\* working_hours 0 and risk_level 'Unknown', and does not throw.
C14_EmptySecurityPayloadDefaults ==
    (Extracted /\ rawType = "security" /\ rawData = EmptyPayload) =>
        /\ ~metricsOut[1].threw
        /\ metricsOut[1].value =
              << [total_actions |-> 0, critical_issues |-> 0,
                  security_score |-> 0, working_hours |-> 0,
                  risk_level |-> "Unknown"] >>

\* the security branch has run on {}
C14_Witness ==
    /\ Extracted
    /\ rawType = "security"
    /\ rawData = EmptyPayload
    /\ metricsOut[1].value[1].risk_level = "Unknown"

\* the payload handed to extractDashboardMetrics has no field `name`
ScoreAbsent(name) ==
    /\ rawData.kind \notin {"undefined", "null"}
    /\ rawData.kind = "object" => rawData.scores[name] = <<>>

\* C15: when the score field is absent from the payload, the default score
\* is 0 for the report types security and cost and 100 for performance.
C15_ScoreDefaultZeroForSecurityAndCost ==
    Extracted =>
        /\ (rawType = "security" /\ ScoreAbsent("security_score"))
              => metricsOut[1].value[1].security_score = 0
        /\ (rawType = "cost" /\ ScoreAbsent("optimization_score"))
              => metricsOut[1].value[1].optimization_score = 0
        /\ (rawType = "performance" /\ ScoreAbsent("performance_score"))
              => metricsOut[1].value[1].performance_score = 100

\* C15 (amended): when the score field is absent from the payload, the
\* default score is 0 for the report type security and 100 for the report
\* types performance and cost.
C15_ScoreDefaultZeroForSecurityOnly ==
    Extracted =>
        /\ (rawType = "security" /\ ScoreAbsent("security_score"))
              => metricsOut[1].value[1].security_score = 0
        /\ (rawType = "cost" /\ ScoreAbsent("optimization_score"))
              => metricsOut[1].value[1].optimization_score = 100
        /\ (rawType = "performance" /\ ScoreAbsent("performance_score"))
              => metricsOut[1].value[1].performance_score = 100

\* a cost payload with its other fields present and no optimization_score
C15_Witness ==
    /\ Extracted
    /\ rawType = "cost"
    /\ rawData.kind = "object"
    /\ rawData.basic_metrics.kind = "object"
    /\ rawData.basic_metrics.f["total_cost_actions"] = <<1>>
    /\ rawData.scores["optimization_score"] = <<>>
    /\ metricsOut[1].value[1].optimization_score = 100
    /\ metricsOut[1].value[1].total_actions = 1

\* a field that is present in the payload is returned as it is
Kept(field, out) == field # <<>> => out = field[1]

\* C16: a default is substituted only when a field is absent: every field
\* that is present in the payload is returned unchanged, including the
\* value 0 (a performance_score or an optimization_score of 0).
C16_PresentFieldsUnchanged ==
    (Extracted /\ rawData.kind = "object"
               /\ rawData.basic_metrics.kind = "object") =>
        LET m == metricsOut[1].value[1]
            b == rawData.basic_metrics
            sc == rawData.scores
        IN  CASE rawType = "security" ->
                   /\ Kept(b.f["total_security_actions"], m.total_actions)
                   /\ Kept(b.f["high_impact_actions"], m.critical_issues)
                   /\ Kept(sc["security_score"], m.security_score)
                   /\ Kept(b.f["estimated_working_hours"], m.working_hours)
                   /\ Kept(b.risk_level, m.risk_level)
              [] rawType = "performance" ->
                   /\ Kept(b.f["total_performance_actions"], m.total_actions)
                   /\ Kept(b.f["high_impact_optimizations"],
                           m.critical_optimizations)
                   /\ Kept(sc["performance_score"], m.performance_score)
                   /\ Kept(b.f["estimated_performance_improvement"],
                           m.optimization_potential)
                   /\ Kept(b.f["estimated_working_hours"], m.working_hours)
              [] rawType = "cost" ->
                   /\ Kept(b.f["total_cost_actions"], m.total_actions)
                   /\ Kept(b.f["estimated_monthly_savings"], m.monthly_savings)
                   /\ Kept(b.f["estimated_annual_savings"], m.annual_savings)
                   /\ Kept(b.f["estimated_working_hours"], m.working_hours)
                   /\ Kept(sc["optimization_score"], m.optimization_score)
              [] OTHER ->
                   /\ Kept(b.f["total_actions"], m.total_actions)
                   /\ Kept(b.f["estimated_working_hours"], m.working_hours)

\* the calls of the normalizer that have run did not throw
NoThrow ==
    /\ metricsOut # <<>> => ~metricsOut[1].threw
    /\ formatOut # <<>> => ~formatOut[1].threw

\* C17: the normalizer is total: for every report type and every payload,
\* null, non-object values and a missing, null or non-object basic_metrics
\* included, extractDashboardMetrics and formatAnalysisData return without
\* throwing.
C17_NormalizerTotal == NoThrow

----------------------------------------------------------------------------
(* Claims about the batch stats load of the dashboard *)

\* loadSpecializedStats has run to its end and called setSpecializedStats
StatsLoaded == dashPc = "done" /\ statsIdx = Len(types) + 1

Requested == {types[i] : i \in 1..statsIdx} \cap TypeSet

----------------------------------------------------------------------------
(* Claims about fetchWithRetry *)

\* the 4xx statuses other than 429
ClientErrors == {400, 401, 403, 404, 413, 422}

\* C20: fetchWithRetry does not retry a 4xx answer other than 429: after a
\* status 400, 401, 403, 404, 413 or 422 it makes no further request and
\* the error is surfaced to the caller at once.
C20_ClientErrorNotRetried ==
    \A i \in DOMAIN rStatuses :
        rStatuses[i] \in ClientErrors =>
            /\ rPc = "thrown"
            /\ rRequests = i

\* the messages an answer with this status can make fetchWithRetry throw
ErrorTextsOf(status) ==
    IF status = 0
    THEN {NetworkErrorText}
    ELSE {handleApiResponse(r).message :
             r \in {x \in ApiResponses : x.status = status}}

\* C21: under the default retry policy a request that keeps failing is
\* attempted at most 3 times in total, the delay before retry k (k = 0, 1,
\* ...) is 1 s * 2^k, and after the last attempt fetchWithRetry throws the
\* error of the last answer.
C21_AtMostThreeAttempts ==
    /\ rRequests <= RETRY_ATTEMPTS
    /\ \A k \in DOMAIN rDelays : rDelays[k] = RETRY_DELAY * Pow2(k - 1)
    /\ rPc = "thrown" =>
          rError \in ErrorTextsOf(rStatuses[Len(rStatuses)])

\* a 401 answer has been received
Got401 == \E i \in DOMAIN rStatuses : rStatuses[i] = 401

\* C22: on an HTTP 401 answer the transport layer only signals the
\* auth-expired error to its caller: window.location is left unchanged and
\* the stored credentials are left for the caller to clear.
C22_NoNavigationOn401 ==
    Got401 => (rLocation = "app" /\ rTokens)

----------------------------------------------------------------------------
(* Claims about the Authorization header *)

\* the token of the helper's token source, <<>> if there is none
SourceToken ==
    IF hdrHelper = "getHeaders" THEN hdrStore.token_local
    ELSE getAuthToken(hdrStore)

\* C23: whenever a token is present in the token source, the request sent
\* carries Authorization: Bearer <that token>, whatever headers the caller
\* passes in the options; when no token is present the helper adds no
\* Authorization header.
C23_BearerTokenAlwaysAttached ==
    hdrSent # <<>> =>
        IF SourceToken # <<>>
        THEN hdrSent[1] = <<Bearer(SourceToken[1])>>
        ELSE hdrSent[1] = hdrCaller

----------------------------------------------------------------------------
(* Claims about the upload *)

\* C24: the values passed to onProgress never decrease and lie within
\* 0..100, and whenever the upload resolves successfully the last value
\* delivered to onProgress is 100.
C24_ProgressMonotoneAndFinal100 ==
    upHasCb =>
        /\ \A i \in DOMAIN upLog : upLog[i] \in 0..100
        /\ \A i \in DOMAIN upLog : i > 1 => upLog[i - 1] <= upLog[i]
        /\ upPromise = "resolved" =>
              (upLog # <<>> /\ upLog[Len(upLog)] = 100)

\* C25: an upload promise is rejected, and never left pending or resolved,
\* on a network failure, a non-2xx answer, a 2xx answer whose body does not
\* parse, and once the 300 s ceiling has passed; it resolves only for a 2xx
\* answer with a body that parses, and it settles exactly once.
C25_UploadRejectsOnEveryFailure ==
    /\ upEnd \in {"network", "http", "badbody", "timeout"}
          => upPromise = "rejected"
    /\ (upCeiling /\ upEnd # "ok") => upPromise = "rejected"
    /\ upPromise = "resolved" => upEnd = "ok"
    /\ upSettles <= 1
    /\ upPromise # "pending" <=> upSettles = 1

----------------------------------------------------------------------------
(* Further claims about the Reports page *)

\* C26: every generation started on the Reports page eventually ends: for
\* every sequence of answers to the polls, isGenerating returns to false
\* and the simulated-progress interval is cleared (as long as the page stays
\* mounted).
C26_GenerationEventuallyEnds ==
    (mounted /\ isGenerating) ~>
        (~mounted \/ (~isGenerating /\ pageIntervals = 0))

\* the page shows a control that starts an upload (the file input of step
\* 1), leads to a generation (the configuration form of step 2) or resets
\* the workflow (the button shown with a finished report)
ControlOffered ==
    \/ mounted /\ currentStep = 1 /\ ~isUploading
    \/ ConfigFormShown
    \/ ResetEnabled

\* C27: the Reports page never gets stuck: whenever no upload and no
\* generation is in progress, after a failed or timed-out generation too, a
\* user action is offered that starts a new upload or generation or resets
\* the workflow to step 1.
C27_NeverStuck ==
    (mounted /\ ~isUploading /\ ~isGenerating) => ControlOffered

\* C28: currentStep >= 2 implies that a file descriptor is held,
\* generatedReport is non-null only with a report that a poll returned with
\* status 'completed', and handleReset restores step 1 with csvFile and
\* generatedReport both null.
C28_StepAndReportInvariants ==
    /\ [](currentStep >= 2 => csvFile # <<>>)
    /\ [](generatedReport # <<>> => generatedReport[1].status = "completed")
    /\ [][(~hasReset /\ hasReset') =>
            (currentStep' = 1 /\ csvFile' = <<>> /\ generatedReport' = <<>>)]_vars

\* after a reset a second file has been uploaded and a second report finished
C28_Witness ==
    /\ hasReset
    /\ currentStep = 3
    /\ csvFile # <<>>
    /\ generatedReport # <<>>

----------------------------------------------------------------------------
(* Claims about the two poll loops and the creation request *)

\* C29: fed the same sequence of 2xx poll responses, the poll loop of the
\* Reports page and reportsService.pollReportStatus with maxAttempts = 60
\* issue the same number of polls and end in the same outcome.
C29_PollLoopsEquivalent ==
    /\ twSvc.polls = twPage.polls
    /\ twSvc.outcome = twPage.outcome

\* both loops have given up after the same 61 polls
C29_Witness ==
    /\ twSvc.outcome = "timeout"
    /\ twPage.outcome = "timeout"
    /\ twSvc.polls = PageMaxAttempts + 1
    /\ twPage.polls = DefaultMaxAttempts + 1

\* the caller passes three boolean flags and no ready-made configuration
BooleanFlags ==
    /\ crInput.includeGraphics # <<>>
    /\ crInput.includeDetailedTables # <<>>
    /\ crInput.includeRecommendations # <<>>
    /\ crInput.configuration = <<>>

\* C30: for every combination of boolean values of includeGraphics,
\* includeDetailedTables and includeRecommendations, the body built by
\* createReport carries include_graphics, include_detailed_tables and
\* include_recommendations equal to those values.
C30_FlagsCarriedUnchanged ==
    (BooleanFlags /\ crBody # <<>>) =>
        /\ crBody[1].include_graphics = crInput.includeGraphics
        /\ crBody[1].include_detailed_tables = crInput.includeDetailedTables
        /\ crBody[1].include_recommendations = crInput.includeRecommendations

====
